---- MODULE Spec2Model ----
(***************************************************************************)
(* Model of json_syntax/attrs.py: the three composite-type rules           *)
(* attrs_classes, named_tuples and tuples.  A rule is called with          *)
(* (verb, typ, ctx), tests applicability, walks the declared fields        *)
(* (issuing resolve_fwd_ref and ctx.lookup per field) and returns a bound  *)
(* action or None.                                                         *)
(***************************************************************************)
EXTENDS Naturals, Sequences, FiniteSets, TLC

VARIABLES
  pc,          \* where the current rule call stands
  rule,        \* the rule being called
  verb, typ,   \* its arguments
  fields,      \* the local `fields` (or `args`) the loop walks
  i,           \* position of the loop in fields
  inner_map,   \* the local inner_map (attrs_classes, named_tuples)
  inner,       \* the local inner (tuples)
  log,         \* the calls made so far by the current call and its result
  result,      \* what the rule returned
  value,       \* the JSON value a returned checker was applied to
  verdict,     \* what the checker answered
  ctxMissing   \* the fallback of ctx for a type with no rule

vars == <<pc, rule, verb, typ, fields, i, inner_map, inner, log, result,
          value, verdict, ctxMissing>>

(* ---------------------------------------------------------------------- *)
(* Bounds                                                                  *)
(* ---------------------------------------------------------------------- *)

\* Largest number of declared fields / tuple elements of a generated type.
MaxFields == 2

(* ---------------------------------------------------------------------- *)
(* Names imported from .helpers                                            *)
(* ---------------------------------------------------------------------- *)

JSON2PY == "json_to_python"
PY2JSON == "python_to_json"
INSP_PY == "inspect_python"
INSP_JSON == "inspect_json"
PATTERN == "show_pattern"

\* The tuple every rule tests the verb against.
Verbs == {JSON2PY, PY2JSON, INSP_PY, INSP_JSON, PATTERN}

\* A verb of some other rule family, to exercise the first guard.
OtherVerb == "some_other_verb"

AllVerbs == Verbs \cup {OtherVerb}

\* helpers.SENTINEL: the "no default" marker (attr.NOTHING).
SENTINEL == "SENTINEL"

\* helpers.identity
identity == "identity"

\* Python's None, as a value bound into an action.
None == "None"

(* ---------------------------------------------------------------------- *)
(* Declared element types                                                  *)
(* ---------------------------------------------------------------------- *)

\* "int" and "str" are concrete types some rule of the context handles;
\* "Fwd_str" is the forward reference 'str' not yet evaluated; "NoneT" is
\* the type slot of an unannotated field (None).
FieldTypes == {"int", "Fwd_str", "NoneT"}

Ellipsis == "Ellipsis"

\* helpers.resolve_fwd_ref(typ, context_class): evaluates a forward
\* reference in the namespace of the owner's module; other types are
\* returned unchanged.
resolve_fwd_ref(t, owner) ==
  IF t = "Fwd_str" THEN "str" ELSE t

\* The hook member names, the defaults of attrs_classes' keyword arguments.
pre_hook == "__json_pre_decode__"
post_hook == "__json_post_encode__"
check == "__json_check__"

HookNames == {pre_hook, post_hook, check}

FieldNames == <<"a", "b", "c", "d">>

(* ---------------------------------------------------------------------- *)
(* Composite type descriptors: what the rules read off a type             *)
(* ---------------------------------------------------------------------- *)

\* The empty dict.
EmptyDict == [n \in {} |-> None]

\* A type, as the members the rules read: the set of attribute names it
\* has, the values of those attributes, whether issub_safe(typ, tuple)
\* holds, and its generic origin.
MkType(name, has, attrs, ftypes, fnames, fsdefs, fdefs, sub, origin, args) ==
  [name |-> name, has |-> has, attrs |-> attrs,
   field_types |-> ftypes, fields_ |-> fnames,
   fields_defaults |-> fsdefs, field_defaults |-> fdefs,
   issub_tuple |-> sub, origin |-> origin, args |-> args]

\* Default values a field may declare; SENTINEL stands for "none declared".
DefaultVals == {SENTINEL, None, "dflt"}

\* Declarations of one attrs / dataclass field.  A field that takes no part
\* in construction (init false) is a derived one.
AttrFieldDecls ==
  {d \in [type : FieldTypes, default : DefaultVals, init : BOOLEAN] :
     /\ d.default = "dflt" => d.type = "int"
     /\ ~d.init => d.type = "int" /\ d.default # None}

AttrFieldSeqs ==
  UNION {[1..n -> AttrFieldDecls] : n \in 0..MaxFields}

\* The field objects of __attrs_attrs__ / __dataclass_fields__.values().
FieldObjects(ds) ==
  [k \in 1..Len(ds) |->
     [name |-> FieldNames[k], type |-> ds[k].type,
      default |-> ds[k].default, init |-> ds[k].init]]

\* Classes decorated with @attr.s (any subset of the hook members) or
\* @dataclass (no hook member, or all three).
RecordTypes ==
  {MkType("attrs", {"__attrs_attrs__"} \cup h, FieldObjects(ds),
          <<>>, <<>>, EmptyDict, EmptyDict, FALSE, "none", <<>>) :
     ds \in AttrFieldSeqs, h \in SUBSET HookNames}
  \cup
  {MkType("dataclass", {"__dataclass_fields__"} \cup h, FieldObjects(ds),
          <<>>, <<>>, EmptyDict, EmptyDict, FALSE, "none", <<>>) :
     ds \in AttrFieldSeqs, h \in {{}, HookNames}}

\* Declarations of one named-tuple field; defaults are trailing, as the
\* language requires.
NtFieldDecls == [type : FieldTypes, default : DefaultVals]

NtFieldSeqs ==
  {ds \in UNION {[1..n -> NtFieldDecls] : n \in 0..MaxFields} :
     \A k \in 1..Len(ds) : \A l \in 1..Len(ds) :
        (k < l /\ ds[k].default # SENTINEL) => ds[l].default # SENTINEL}

\* The defaults table of a named tuple: field name -> default.
NtDefaults(ds) ==
  [n \in {FieldNames[k] : k \in {j \in 1..Len(ds) : ds[j].default # SENTINEL}}
     |-> ds[CHOOSE k \in 1..Len(ds) : FieldNames[k] = n].default]

\* typing.NamedTuple classes (with _field_types) and collections.namedtuple
\* classes (only _fields); the defaults table under either attribute name;
\* optionally with hook members.
NamedTupleTypes ==
  {MkType(IF typed THEN "NamedTuple" ELSE "namedtuple",
          (IF typed THEN {"_field_types", "_fields"} ELSE {"_fields"})
             \cup {tbl} \cup h,
          <<>>,
          [k \in 1..Len(ds) |-> <<FieldNames[k], ds[k].type>>],
          [k \in 1..Len(ds) |-> FieldNames[k]],
          IF tbl = "_fields_defaults" THEN NtDefaults(ds) ELSE EmptyDict,
          IF tbl = "_field_defaults" THEN NtDefaults(ds) ELSE EmptyDict,
          TRUE, "none", <<>>) :
     ds \in NtFieldSeqs, typed \in BOOLEAN,
     tbl \in {"_fields_defaults", "_field_defaults"},
     h \in {{}, HookNames}}

\* Element types of Tuple[...]: an unevaluated forward reference has no rule.
ArgTypes == {"int", "str", "Fwd_str"}

\* Tuple[t1, .., tn] and the homogeneous Tuple[t, ...].
TupleArgs ==
  UNION {[1..n -> ArgTypes] : n \in 1..MaxFields}
  \cup {<<t, Ellipsis>> : t \in ArgTypes}

\* typing.Tuple generics; whether issubclass(typ, tuple) holds for a generic
\* depends on the Python version.
TupleTypes ==
  {MkType("Tuple", {"__args__"}, <<>>, <<>>, <<>>, EmptyDict, EmptyDict,
          sub, "tuple", args) :
     args \in TupleArgs, sub \in BOOLEAN}

\* Types none of the three rules handles: a plain class, a class with only
\* hook members (Hooks of the tests), tuple itself, List[int].
OtherTypes ==
  {MkType("int", {}, <<>>, <<>>, <<>>, EmptyDict, EmptyDict,
          FALSE, "none", <<>>),
   MkType("Hooks", HookNames, <<>>, <<>>, <<>>, EmptyDict, EmptyDict,
          FALSE, "none", <<>>),
   MkType("tuple", {}, <<>>, <<>>, <<>>, EmptyDict, EmptyDict,
          TRUE, "none", <<>>),
   MkType("List", {"__args__"}, <<>>, <<>>, <<>>, EmptyDict, EmptyDict,
          FALSE, "list", <<"int">>)}

Types == RecordTypes \cup NamedTupleTypes \cup TupleTypes \cup OtherTypes

\* The value of typ before any call.
NoType ==
  MkType("-", {}, <<>>, <<>>, <<>>, EmptyDict, EmptyDict, FALSE, "none", <<>>)


(* ---------------------------------------------------------------------- *)
(* The resolution context and what its lookups return                      *)
(* ---------------------------------------------------------------------- *)

\* One entry of a call's trace: a resolve_fwd_ref call, a ctx.lookup call,
\* or the invocation of a hook member.
Event(op, v, t, owner, am) ==
  [op |-> op, verb |-> v, typ |-> t, owner |-> owner, am |-> am]

\* The actions of element types, as lookups return them.
Leaf(v, t) == [kind |-> "action", verb |-> v, typ |-> t]
PassThrough(v, t) == [kind |-> "passthrough", verb |-> v, typ |-> t]
NoneArt == [kind |-> "None", verb |-> "-", typ |-> "-"]

\* pattern.Unkown, the wildcard pattern.
Unkown == [kind |-> "Unkown", verb |-> "-", typ |-> "-"]

\* pattern.String.exact(name)
StringExact(name) == <<"String.exact", name>>

\* Python truthiness of a lookup result.
Truthy(x) == x.kind # "None"

\* The concrete types for which some rule of the context yields an action.
HasRule(t) == t \in {"int", "str"}

\* ctx.lookup(verb, typ, accept_missing): with no matching rule it raises
\* unless accept_missing is true, and then returns the context's fallback,
\* which is either nothing (None) or a pass-through action.
Lookup(missing, v, t, am) ==
  IF HasRule(t) THEN [raised |-> FALSE, val |-> Leaf(v, t)]
  ELSE IF am = "True"
    THEN [raised |-> FALSE,
          val |-> IF missing = "None" THEN NoneArt ELSE PassThrough(v, t)]
    ELSE [raised |-> TRUE, val |-> NoneArt]

\* The lookup a trace entry stands for.
DoLookup(missing, ev) == Lookup(missing, ev.verb, ev.typ, ev.am)

(* ---------------------------------------------------------------------- *)
(* What a rule returns                                                     *)
(* ---------------------------------------------------------------------- *)

\* A bound action: partial(fn, **kwargs), a pattern node, a hook method,
\* or one of the outcomes "None" (no match) and "raise".
Bound(fn, t, pre, post, im, inn, con) ==
  [fn |-> fn, typ |-> t, pre_hook |-> pre, post_hook |-> post,
   inner_map |-> im, inner |-> inn, con |-> con]

\* `return` with no value.
NoMatch == Bound("None", NoType, "-", "-", <<>>, <<>>, NoType)

\* The value of result while the rule is still running.
Pending == Bound("pending", NoType, "-", "-", <<>>, <<>>, NoType)

\* An exception leaving the rule.
Raised == Bound("raise", NoType, "-", "-", <<>>, <<>>, NoType)

\* partial(check_isinst, typ=typ)
CheckIsinst(t) == Bound("check_isinst", t, "-", "-", <<>>, <<>>, "-")

\* A hook resolver that invokes the member it finds.
GetAttrCalling(t, name, default) ==
  [val |-> IF name \in t.has THEN name ELSE default,
   calls |-> IF name \in t.has
               THEN <<Event("call", "-", name, t.name, "-")>> ELSE <<>>]

\* getattr(typ, name, default) / hasattr(typ, name): the member when the
\* type has it, with the calls made to find that out (none).
GetAttr(t, name, default) ==
  [val |-> IF name \in t.has THEN name ELSE default, calls |-> <<>>]


(* ---------------------------------------------------------------------- *)
(* attrs_classes                                                           *)
(* ---------------------------------------------------------------------- *)

\* helpers.is_attrs_field_required(field): the field declares no default.
is_attrs_field_required(field) == field.default = SENTINEL

\* Whether typ.__attrs_attrs__ or typ.__dataclass_fields__ exists.
AttrsHasFields(t) ==
  "__attrs_attrs__" \in t.has \/ "__dataclass_fields__" \in t.has

\* A loop that forgets the init test.
AttrsIncludedAll(field) == TRUE

\* `if field.init:`
AttrsIncluded(field) == field.init

\* A loop that looks the declared type up as it stands.
AttrsFieldEventsUnresolved(v, field, t) ==
  <<Event("lookup", v, field.type, "-", "True")>>

\* The calls made for one included field: resolve_fwd_ref(field.type, typ),
\* then ctx.lookup(verb=verb, typ=<resolved>, accept_missing=True).
AttrsFieldEvents(v, field, t) ==
  <<Event("resolve", "-", field.type, t.name, "-"),
    Event("lookup", v, resolve_fwd_ref(field.type, t.name), "-", "True")>>

\* The tuple appended to inner_map for one included field.
AttrsTup(v, field, got) ==
  IF v = PY2JSON THEN <<field.name, got, field.default>>
  ELSE IF v \in {INSP_JSON, PATTERN}
    THEN <<field.name, got, is_attrs_field_required(field)>>
    ELSE <<field.name, got>>

\* pat.Object.exact((pat.String.exact(name), inner or pat.Unkown)
\*                  for name, inner, req in inner_map if req)
AttrsPatternEntries(im) ==
  LET req == SelectSeq(im, LAMBDA tup : tup[3])
  IN  [k \in 1..Len(req) |->
         <<StringExact(req[k][1]),
           IF Truthy(req[k][2]) THEN req[k][2] ELSE Unkown>>]

\* The hook members the return statement of the verb reads, with the calls
\* reading them makes.
AttrsHookReads(v, t) ==
  IF v = JSON2PY THEN GetAttr(t, pre_hook, identity).calls
  ELSE IF v = PY2JSON THEN GetAttr(t, post_hook, None).calls
  ELSE IF v = INSP_JSON
    THEN GetAttr(t, check, None).calls
         \o (IF GetAttr(t, check, None).val # None THEN <<>>
             ELSE GetAttr(t, pre_hook, identity).calls)
    ELSE <<>>

\* A JSON checker that never consults __json_check__.
AttrsInspJsonNoOverride(t, im) ==
  Bound("check_dict", NoType, GetAttr(t, pre_hook, identity).val,
        "-", im, <<>>, NoType)

\* The JSON checker of a record type: the __json_check__ member if the type
\* has one, else check_dict bound to the pre-decode hook and the fields.
AttrsInspJson(t, im) ==
  IF GetAttr(t, check, None).val # None
    THEN Bound(check, t, "-", "-", <<>>, <<>>, NoType)
    ELSE Bound("check_dict", NoType, GetAttr(t, pre_hook, identity).val,
               "-", im, <<>>, NoType)

\* The return statement selected by the verb, after the loop.
AttrsResult(v, t, im) ==
  IF v = JSON2PY
    THEN Bound("convert_dict_to_attrs", NoType,
               GetAttr(t, pre_hook, identity).val, "-", im, <<>>, t)
  ELSE IF v = PY2JSON
    THEN Bound("convert_attrs_to_dict", NoType, "-",
               GetAttr(t, post_hook, None).val, im, <<>>, NoType)
  ELSE IF v = INSP_JSON THEN AttrsInspJson(t, im)
  ELSE IF v = PATTERN
    THEN Bound("Object.exact", NoType, "-", "-",
               AttrsPatternEntries(im), <<>>, NoType)
  ELSE NoMatch

\* Entry: the verb guard, the two attribute probes, the INSP_PY return.
AttrsCall(v, t) ==
  /\ pc = "idle"
  /\ rule' = "attrs_classes" /\ verb' = v /\ typ' = t
  /\ log' = <<>> /\ inner_map' = <<>> /\ i' = 1
  /\ UNCHANGED <<inner, value, verdict>>
  /\ IF v \notin Verbs \/ ~AttrsHasFields(t)
       THEN /\ result' = NoMatch /\ pc' = "done" /\ fields' = <<>>
       ELSE IF v = INSP_PY
         THEN /\ result' = CheckIsinst(t) /\ pc' = "done"
              /\ fields' = t.attrs
         ELSE /\ result' = Pending /\ pc' = "loop" /\ fields' = t.attrs
  /\ UNCHANGED ctxMissing

\* One iteration of `for field in fields`.
AttrsLoop ==
  /\ pc = "loop" /\ rule = "attrs_classes" /\ i <= Len(fields)
  /\ LET field == fields[i]
         evs == AttrsFieldEvents(verb, field, typ)
         got == DoLookup(ctxMissing, evs[Len(evs)])
     IN  IF AttrsIncluded(field)
           THEN /\ log' = log \o evs
                /\ inner_map' = Append(inner_map, AttrsTup(verb, field, got.val))
           ELSE UNCHANGED <<log, inner_map>>
  /\ i' = i + 1
  /\ UNCHANGED <<pc, rule, verb, typ, fields, inner, result, value, verdict,
                 ctxMissing>>

\* The hook lookups and the return after the loop.
AttrsReturn ==
  /\ pc = "loop" /\ rule = "attrs_classes" /\ i > Len(fields)
  /\ log' = log \o AttrsHookReads(verb, typ)
  /\ result' = AttrsResult(verb, typ, inner_map)
  /\ pc' = "done"
  /\ UNCHANGED <<rule, verb, typ, fields, i, inner_map, inner, value, verdict,
                 ctxMissing>>


(* ---------------------------------------------------------------------- *)
(* named_tuples                                                            *)
(* ---------------------------------------------------------------------- *)

\* Whether typ._field_types or typ._fields exists.
NtHasFields(t) == "_field_types" \in t.has \/ "_fields" \in t.has

\* The local `fields`: the items of _field_types, else the names of _fields
\* each paired with None.
NtFields(t) ==
  IF "_field_types" \in t.has THEN t.field_types
  ELSE [k \in 1..Len(t.fields_) |-> <<t.fields_[k], "NoneT">>]

\* defaults = {}; updated from _fields_defaults, then from _field_defaults.
NtDefaultsOf(t) ==
  (IF "_field_defaults" \in t.has THEN t.field_defaults ELSE EmptyDict)
  @@ (IF "_fields_defaults" \in t.has THEN t.fields_defaults ELSE EmptyDict)

\* A lookup that leaves accept_missing out.
NtFieldEventsNoAccept(v, fld, t) ==
  <<Event("resolve", "-", fld[2], t.name, "-"),
    Event("lookup", v, resolve_fwd_ref(fld[2], t.name), "-", "default")>>

\* The calls made for one field: resolve_fwd_ref(inner, typ), then
\* ctx.lookup(verb=verb, typ=<resolved>, accept_missing=True).
NtFieldEvents(v, fld, t) ==
  <<Event("resolve", "-", fld[2], t.name, "-"),
    Event("lookup", v, resolve_fwd_ref(fld[2], t.name), "-", "True")>>

\* A descriptor that takes a default of None for no default.
NtTupNoneRequired(v, name, got, defaults) ==
  IF v = PY2JSON
    THEN <<name, got,
           IF name \in DOMAIN defaults THEN defaults[name] ELSE SENTINEL>>
  ELSE IF v \in {INSP_JSON, PATTERN}
    THEN <<name, got, name \notin DOMAIN defaults \/ defaults[name] = None>>
    ELSE <<name, got>>

\* The tuple appended to inner_map for one field.
NtTup(v, name, got, defaults) ==
  IF v = PY2JSON
    THEN <<name, got,
           IF name \in DOMAIN defaults THEN defaults[name] ELSE SENTINEL>>
  ELSE IF v \in {INSP_JSON, PATTERN}
    THEN <<name, got, name \notin DOMAIN defaults>>
    ELSE <<name, got>>

\* pat.Object.exact((pat.String.exact(name), inner)
\*                  for name, inner, req in inner_map if req)
NtPatternEntries(im) ==
  LET req == SelectSeq(im, LAMBDA tup : tup[3])
  IN  [k \in 1..Len(req) |-> <<StringExact(req[k][1]), req[k][2]>>]

\* The return statement selected by the verb, after the loop.
NtResult(v, t, im) ==
  IF v = JSON2PY
    THEN Bound("convert_dict_to_attrs", NoType, identity, "-", im, <<>>, t)
  ELSE IF v = PY2JSON
    THEN Bound("convert_attrs_to_dict", NoType, "-", None, im, <<>>, NoType)
  ELSE IF v = INSP_JSON
    THEN Bound("check_dict", NoType, identity, "-", im, <<>>, NoType)
  ELSE IF v = PATTERN
    THEN Bound("Object.exact", NoType, "-", "-",
               NtPatternEntries(im), <<>>, NoType)
  ELSE NoMatch

\* Entry: the verb and issub_safe guard, the two attribute probes, the
\* INSP_PY return.
NtCall(v, t) ==
  /\ pc = "idle"
  /\ rule' = "named_tuples" /\ verb' = v /\ typ' = t
  /\ log' = <<>> /\ inner_map' = <<>> /\ i' = 1
  /\ UNCHANGED <<inner, value, verdict>>
  /\ IF v \notin Verbs \/ ~t.issub_tuple \/ ~NtHasFields(t)
       THEN /\ result' = NoMatch /\ pc' = "done" /\ fields' = <<>>
       ELSE IF v = INSP_PY
         THEN /\ result' = CheckIsinst(t) /\ pc' = "done"
              /\ fields' = NtFields(t)
         ELSE /\ result' = Pending /\ pc' = "loop" /\ fields' = NtFields(t)
  /\ UNCHANGED ctxMissing

\* One iteration of `for name, inner in fields`.
NtLoop ==
  /\ pc = "loop" /\ rule = "named_tuples" /\ i <= Len(fields)
  /\ LET fld == fields[i]
         evs == NtFieldEvents(verb, fld, typ)
         got == DoLookup(ctxMissing, evs[Len(evs)])
     IN  /\ log' = log \o evs
         /\ inner_map' =
              Append(inner_map, NtTup(verb, fld[1], got.val, NtDefaultsOf(typ)))
  /\ i' = i + 1
  /\ UNCHANGED <<pc, rule, verb, typ, fields, inner, result, value, verdict,
                 ctxMissing>>

\* The return after the loop.
NtReturn ==
  /\ pc = "loop" /\ rule = "named_tuples" /\ i > Len(fields)
  /\ result' = NtResult(verb, typ, inner_map)
  /\ pc' = "done"
  /\ UNCHANGED <<rule, verb, typ, fields, i, inner_map, inner, log, value,
                 verdict, ctxMissing>>

(* ---------------------------------------------------------------------- *)
(* tuples                                                                  *)
(* ---------------------------------------------------------------------- *)

\* The builtins tuple and list, the constructors bound as `con`.
BuiltinTuple ==
  MkType("tuple", {}, <<>>, <<>>, <<>>, EmptyDict, EmptyDict,
         TRUE, "none", <<>>)
BuiltinList ==
  MkType("list", {}, <<>>, <<>>, <<>>, EmptyDict, EmptyDict,
         FALSE, "none", <<>>)

\* helpers.has_origin(typ, tuple)
has_origin_tuple(t) == t.origin = "tuple"

\* A guard that joins its two tests with `and`.
TupDeclinesBoth(v, t) == v \notin Verbs /\ ~has_origin_tuple(t)

\* `verb not in (...) or not has_origin(typ, tuple)`
TupDeclines(v, t) == v \notin Verbs \/ ~has_origin_tuple(t)

\* A marker test that looks at the first element only.
EllipsisFirst(args) == Len(args) > 0 /\ args[1] = Ellipsis

\* `Ellipsis in args`
EllipsisIn(args) == \E k \in 1..Len(args) : args[k] = Ellipsis

\* The call made for one element: ctx.lookup(verb=verb, typ=arg).
TupArgEvents(v, arg) == <<Event("lookup", v, arg, "-", "default")>>

\* A dispatch with the constructors of the two checkers exchanged.
TupResultSwapped(v, inn) ==
  IF v = JSON2PY
    THEN Bound("convert_tuple_as_list", NoType, "-", "-", <<>>, inn, BuiltinTuple)
  ELSE IF v = PY2JSON
    THEN Bound("convert_tuple_as_list", NoType, "-", "-", <<>>, inn, BuiltinList)
  ELSE IF v = INSP_PY
    THEN Bound("check_tuple_as_list", NoType, "-", "-", <<>>, inn, BuiltinList)
  ELSE IF v = INSP_JSON
    THEN Bound("check_tuple_as_list", NoType, "-", "-", <<>>, inn, BuiltinTuple)
  ELSE IF v = PATTERN
    THEN Bound("Array.exact", NoType, "-", "-", <<>>, inn, NoType)
  ELSE NoMatch

\* The return statement selected by the verb.
TupResult(v, inn) ==
  IF v = JSON2PY
    THEN Bound("convert_tuple_as_list", NoType, "-", "-", <<>>, inn, BuiltinTuple)
  ELSE IF v = PY2JSON
    THEN Bound("convert_tuple_as_list", NoType, "-", "-", <<>>, inn, BuiltinList)
  ELSE IF v = INSP_PY
    THEN Bound("check_tuple_as_list", NoType, "-", "-", <<>>, inn, BuiltinTuple)
  ELSE IF v = INSP_JSON
    THEN Bound("check_tuple_as_list", NoType, "-", "-", <<>>, inn, BuiltinList)
  ELSE IF v = PATTERN
    THEN Bound("Array.exact", NoType, "-", "-", <<>>, inn, NoType)
  ELSE NoMatch

\* Entry: the verb and has_origin guard, then the Ellipsis test.
TupCall(v, t) ==
  /\ pc = "idle"
  /\ rule' = "tuples" /\ verb' = v /\ typ' = t
  /\ log' = <<>> /\ inner' = <<>> /\ i' = 1
  /\ UNCHANGED <<inner_map, value, verdict>>
  /\ IF TupDeclines(v, t)
       THEN /\ result' = NoMatch /\ pc' = "done" /\ fields' = <<>>
       ELSE IF EllipsisIn(t.args)
         THEN /\ result' = NoMatch /\ pc' = "done" /\ fields' = t.args
         ELSE /\ result' = Pending /\ pc' = "loop" /\ fields' = t.args
  /\ UNCHANGED ctxMissing

\* One element of the list comprehension; a lookup that raises ends the call.
TupLoop ==
  /\ pc = "loop" /\ rule = "tuples" /\ i <= Len(fields)
  /\ LET evs == TupArgEvents(verb, fields[i])
         got == DoLookup(ctxMissing, evs[Len(evs)])
     IN  /\ log' = log \o evs
         /\ IF got.raised
              THEN /\ result' = Raised /\ pc' = "done" /\ UNCHANGED inner
              ELSE /\ inner' = Append(inner, got.val)
                   /\ UNCHANGED <<result, pc>>
  /\ i' = i + 1
  /\ UNCHANGED <<rule, verb, typ, fields, inner_map, value, verdict,
                 ctxMissing>>

\* The return after the comprehension.
TupReturn ==
  /\ pc = "loop" /\ rule = "tuples" /\ i > Len(fields)
  /\ result' = TupResult(verb, inner)
  /\ pc' = "done"
  /\ UNCHANGED <<rule, verb, typ, fields, i, inner_map, inner, log, value,
                 verdict, ctxMissing>>


(* ---------------------------------------------------------------------- *)
(* Applying a returned JSON checker                                        *)
(* ---------------------------------------------------------------------- *)

\* JSON values a checker is applied to: an object with some of the keys
\* "a", "b" and possibly "_type_": "Hook", or a two-element array.
JsonValues ==
  {[kind |-> "dict", keys |-> ks, tagged |-> tg] :
     ks \in SUBSET {"a", "b"}, tg \in BOOLEAN}
  \cup {[kind |-> "list", keys |-> {}, tagged |-> FALSE]}

NoValue == [kind |-> "-", keys |-> {}, tagged |-> FALSE]

\* Hooks.__json_pre_decode__: a list becomes {"a": value[0], "b": value[1]}.
json_pre_decode(val) ==
  IF val.kind = "list"
    THEN [kind |-> "dict", keys |-> {"a", "b"}, tagged |-> FALSE]
    ELSE val

\* Hooks.__json_check__: value.get("_type_") == "Hook".
json_check(val) ==
  IF val.kind # "dict" THEN "raise"
  ELSE IF val.tagged THEN "True" ELSE "False"

\* action_v1.check_dict(value, inner_map, pre_hook): the pre-decode hook is
\* applied, the result must be a mapping, every required name must be a key
\* and every present field must pass its own checker.
check_dict(val, im, pre) ==
  LET v == IF pre = identity THEN val ELSE json_pre_decode(val)
      stops == {k \in 1..Len(im) :
                  \/ im[k][1] \notin v.keys /\ im[k][3]
                  \/ im[k][1] \in v.keys /\ ~Truthy(im[k][2])}
      first == CHOOSE k \in stops : \A l \in stops : k <= l
  IN  IF v.kind # "dict" THEN "False"
      ELSE IF stops = {} THEN "True"
      ELSE IF im[first][1] \notin v.keys THEN "False"
      ELSE "raise"

\* What the returned checker answers for a value.
ApplyChecker(art, val) ==
  IF art.fn = check THEN json_check(val)
  ELSE check_dict(val, art.inner_map, art.pre_hook)

\* The hook members the returned checker invokes when applied.
CheckerCalls(art) ==
  IF art.fn = check THEN <<Event("call", "-", check, art.typ.name, "-")>>
  ELSE IF art.pre_hook # identity
    THEN <<Event("call", "-", art.pre_hook, "-", "-")>>
    ELSE <<>>

\* The caller applies the JSON checker a rule returned.
InspectJson(val) ==
  /\ pc = "done" /\ verb = INSP_JSON
  /\ result.fn \in {check, "check_dict"}
  /\ value' = val
  /\ verdict' = ApplyChecker(result, val)
  /\ log' = log \o CheckerCalls(result)
  /\ pc' = "checked"
  /\ UNCHANGED <<rule, verb, typ, fields, i, inner_map, inner, result,
                 ctxMissing>>

(* ---------------------------------------------------------------------- *)
(* The specification                                                       *)
(* ---------------------------------------------------------------------- *)

Init ==
  /\ pc = "idle" /\ rule = "-" /\ verb = "-" /\ typ = NoType
  /\ fields = <<>> /\ i = 1 /\ inner_map = <<>> /\ inner = <<>>
  /\ log = <<>> /\ result = Pending
  /\ value = NoValue /\ verdict = "-"
  /\ ctxMissing \in {"None", "passthrough"}

\* The caller takes the result; the next call starts afresh.
Finish ==
  /\ pc \in {"done", "checked"}
  /\ pc' = "idle" /\ rule' = "-" /\ verb' = "-" /\ typ' = NoType
  /\ fields' = <<>> /\ i' = 1 /\ inner_map' = <<>> /\ inner' = <<>>
  /\ log' = <<>> /\ result' = Pending
  /\ value' = NoValue /\ verdict' = "-"
  /\ UNCHANGED ctxMissing

\* A dispatcher calls one of the rules with some verb and type.
attrs_classes == pc = "idle" /\ \E v \in AllVerbs, t \in Types : AttrsCall(v, t)

named_tuples == pc = "idle" /\ \E v \in AllVerbs, t \in Types : NtCall(v, t)

tuples == pc = "idle" /\ \E v \in AllVerbs, t \in Types : TupCall(v, t)

\* The caller applies a returned JSON checker to some value.
Inspect ==
  /\ pc = "done" /\ verb = INSP_JSON
  /\ \E val \in JsonValues : InspectJson(val)

Next ==
  \/ attrs_classes
  \/ named_tuples
  \/ tuples
  \/ AttrsLoop
  \/ AttrsReturn
  \/ NtLoop
  \/ NtReturn
  \/ TupLoop
  \/ TupReturn
  \/ Inspect
  \/ Finish

Spec == Init /\ [][Next]_vars


(* ---------------------------------------------------------------------- *)
(* Properties                                                              *)
(* ---------------------------------------------------------------------- *)

\* The ctx.lookup calls of a trace, in order.
Lookups(l) == SelectSeq(l, LAMBDA e : e.op = "lookup")

\* The resolve_fwd_ref calls of a trace, in order.
Resolves(l) == SelectSeq(l, LAMBDA e : e.op = "resolve")

\* The hook invocations of a trace.
HookCalls(l) == SelectSeq(l, LAMBDA e : e.op = "call")

\* A call is under way or has returned.
Called == pc \in {"loop", "done", "checked"}

\* The rule returned something other than "no match" or an exception.
Returned == pc \in {"done", "checked"} /\ result.fn \notin {"None", "raise"}

\* The type lacks the metadata shape the called rule expects.
LacksShape ==
  \/ /\ rule = "attrs_classes"
     /\ "__attrs_attrs__" \notin typ.has
     /\ "__dataclass_fields__" \notin typ.has
  \/ /\ rule = "named_tuples"
     /\ \/ ~typ.issub_tuple
        \/ "_field_types" \notin typ.has /\ "_fields" \notin typ.has
  \/ /\ rule = "tuples"
     /\ typ.origin # "tuple"

\* C1: a rule called with a verb outside the five verbs, or with a type
\* that lacks the metadata shape the rule expects, returns None at once:
\* no exception and no ctx.lookup call.
C1_InapplicableIsNoMatch ==
  (Called /\ (verb \notin Verbs \/ LacksShape)) =>
     /\ pc = "done"
     /\ result = NoMatch
     /\ log = <<>>

\* C1 witness: the tuple rule has declined List[int] under one of its verbs.
C1_Witness ==
  /\ pc = "done" /\ rule = "tuples" /\ verb = PATTERN
  /\ typ.origin = "list" /\ result = NoMatch

\* The element list of the type carries the "repeat indefinitely" marker.
HasMarker == \E k \in 1..Len(typ.args) : typ.args[k] = Ellipsis

\* C2: under each of the five verbs the tuple rule declines a tuple type
\* whose element list carries Ellipsis, before any ctx.lookup, and never
\* declines a tuple type without it.
C2_EllipsisDeclines ==
  (Called /\ rule = "tuples" /\ verb \in Verbs /\ typ.origin = "tuple") =>
     IF HasMarker
       THEN pc = "done" /\ result = NoMatch /\ Lookups(log) = <<>>
       ELSE result # NoMatch

\* C2 witness: Tuple[int, ...] was declined under the decode verb.
C2_Witness ==
  /\ pc = "done" /\ rule = "tuples" /\ verb = JSON2PY
  /\ typ.origin = "tuple" /\ typ.args = <<"int", Ellipsis>>
  /\ result = NoMatch

\* The result is a type check bound to the composite type alone, built
\* without any lookup.
ShallowCheck ==
  /\ result.fn = "check_isinst" /\ result.typ = typ
  /\ result.inner = <<>> /\ result.inner_map = <<>>
  /\ Lookups(log) = <<>>

\* C3 as stated: under the native-validate verb each of the three rules
\* returns a shallow type check bound only to the composite type and makes
\* no lookup for field or element types.
C3_Original ==
  (Returned /\ verb = INSP_PY) => ShallowCheck

\* C3 amended: under the native-validate verb the record rule and the
\* named-tuple rule return a shallow type check bound only to the type, with
\* no lookup; the tuple rule looks every element type up, in order, and
\* returns check_tuple_as_list bound to those element checkers and to tuple.
C3_NativeValidate ==
  (Returned /\ verb = INSP_PY) =>
     IF rule \in {"attrs_classes", "named_tuples"}
       THEN ShallowCheck
       ELSE /\ result.fn = "check_tuple_as_list"
            /\ result.con = BuiltinTuple
            /\ Len(result.inner) = Len(typ.args)
            /\ Len(Lookups(log)) = Len(typ.args)
            /\ \A k \in 1..Len(typ.args) :
                  /\ Lookups(log)[k].typ = typ.args[k]
                  /\ Lookups(log)[k].verb = INSP_PY
                  /\ result.inner[k] = Leaf(INSP_PY, typ.args[k])

\* C3 witness: the record rule returned the shallow check for a class with
\* two constructor fields.
C3_Witness ==
  /\ pc = "done" /\ rule = "attrs_classes" /\ verb = INSP_PY
  /\ Len(typ.attrs) = 2 /\ typ.attrs[1].init /\ typ.attrs[2].init
  /\ result.fn = "check_isinst" /\ result.typ = typ


\* The verdict of the returned record checker on the applied value is the
\* one __json_check__ gives, and applying it ran no pre-decode hook.
AnswersAsOverride ==
  /\ verdict = json_check(value)
  /\ \A k \in 1..Len(log) : log[k].op = "call" => log[k].typ = check

\* The names of the constructor fields of the type, in declared order.
InitNames ==
  LET fs == SelectSeq(typ.attrs, LAMBDA f : f.init)
  IN  [k \in 1..Len(fs) |-> fs[k].name]

\* The field names of a field list, in order.
NamesOf(im) == [k \in 1..Len(im) |-> im[k][1]]

\* C4: for a record type with a __json_check__ member the JSON-validate
\* result of the record rule is that member itself: applied to any value it
\* answers what __json_check__ answers, whichever required fields the value
\* holds, and no pre-decode hook runs.  Without the member the result is
\* check_dict bound to the pre-decode hook (or identity) and the field list.
C4_OverrideCheck ==
  (Returned /\ rule = "attrs_classes" /\ verb = INSP_JSON) =>
     IF check \in typ.has
       THEN /\ result.fn = check /\ result.typ = typ
            /\ result.inner_map = <<>>
            /\ pc = "checked" => AnswersAsOverride
       ELSE /\ result.fn = "check_dict"
            /\ result.pre_hook =
                 (IF pre_hook \in typ.has THEN pre_hook ELSE identity)
            /\ result.inner_map = inner_map
            /\ NamesOf(result.inner_map) = InitNames

\* C4 witness: the override answered True for a tagged object that lacks the
\* required field "a" of the class.
C4_Witness ==
  /\ pc = "checked" /\ rule = "attrs_classes" /\ verb = INSP_JSON
  /\ check \in typ.has /\ pre_hook \in typ.has
  /\ Len(typ.attrs) = 2
  /\ typ.attrs[1].init /\ typ.attrs[1].default = SENTINEL
  /\ value.kind = "dict" /\ value.keys = {} /\ value.tagged
  /\ verdict = "True"

\* C5 as stated: every ctx.lookup of any of the three rules carries the verb
\* of the call and accept_missing=True.
C5_Original ==
  \A k \in 1..Len(log) :
     log[k].op = "lookup" => log[k].verb = verb /\ log[k].am = "True"

\* C5 amended: every ctx.lookup of the three rules carries the verb of the
\* call; the record rule and the named-tuple rule pass accept_missing=True,
\* while the tuple rule passes no accept_missing at all, so the default of
\* the context applies to element types.
C5_LookupArguments ==
  \A k \in 1..Len(log) :
     log[k].op = "lookup" =>
        /\ log[k].verb = verb
        /\ rule \in {"attrs_classes", "named_tuples"} => log[k].am = "True"
        /\ rule = "tuples" => log[k].am = "default"

\* C5 witness: the named-tuple rule looked the type of an unannotated field
\* up with accept_missing and bound the pass-through it got.
C5_Witness ==
  /\ pc = "done" /\ rule = "named_tuples" /\ verb = PY2JSON
  /\ Len(Lookups(log)) = 2
  /\ Lookups(log)[1].typ = "NoneT" /\ Lookups(log)[1].am = "True"
  /\ result.inner_map[1][2] = PassThrough(PY2JSON, "NoneT")

\* Every lookup of the trace directly follows a resolve_fwd_ref call made
\* with the owning type, and is handed that call's result.
ResolvedBeforeLookup ==
  \A k \in 1..Len(log) :
     log[k].op = "lookup" =>
        /\ k > 1
        /\ log[k - 1].op = "resolve"
        /\ log[k - 1].owner = typ.name
        /\ log[k].typ = resolve_fwd_ref(log[k - 1].typ, typ.name)
        /\ log[k].typ # "Fwd_str"

\* The declared types of the fields the rule walks, in order.
DeclaredTypes ==
  IF rule = "attrs_classes"
    THEN LET fs == SelectSeq(typ.attrs, LAMBDA f : f.init)
         IN  [k \in 1..Len(fs) |-> fs[k].type]
    ELSE IF "_field_types" \in typ.has
      THEN [k \in 1..Len(typ.field_types) |-> typ.field_types[k][2]]
      ELSE [k \in 1..Len(typ.fields_) |-> "NoneT"]

\* C6 as stated: in all three rules every declared field or element type
\* goes through resolve_fwd_ref with the owning type first, and only the
\* resolved type is handed to ctx.lookup.
C6_Original == ResolvedBeforeLookup

\* C6 amended: in the record rule and the named-tuple rule every declared
\* field type goes through resolve_fwd_ref with the owning type, directly
\* before its lookup, and the lookup gets the resolved type; the tuple rule
\* calls no resolver and hands each element type to ctx.lookup as declared.
C6_ResolveThenLookup ==
  /\ rule \in {"attrs_classes", "named_tuples"} =>
       /\ ResolvedBeforeLookup
       /\ Len(Resolves(log)) = Len(Lookups(log))
       /\ pc \in {"done", "checked"} /\ result.fn \notin {"None", "check_isinst"} =>
            /\ Len(Resolves(log)) = Len(DeclaredTypes)
            /\ \A k \in 1..Len(DeclaredTypes) :
                  Resolves(log)[k].typ = DeclaredTypes[k]
  /\ rule = "tuples" =>
       /\ Resolves(log) = <<>>
       /\ \A k \in 1..Len(Lookups(log)) : Lookups(log)[k].typ = typ.args[k]

\* C6 witness: the record rule resolved the forward reference of its second
\* field and looked the resolved type up.
C6_Witness ==
  /\ pc = "done" /\ rule = "attrs_classes" /\ verb = JSON2PY
  /\ Len(log) = 4
  /\ log[3].op = "resolve" /\ log[3].typ = "Fwd_str"
  /\ log[4].op = "lookup" /\ log[4].typ = "str"


\* The declared default of a named-tuple field, SENTINEL when it has none.
NtDeclaredDefault(name) ==
  IF "_field_defaults" \in typ.has /\ name \in DOMAIN typ.field_defaults
    THEN typ.field_defaults[name]
  ELSE IF "_fields_defaults" \in typ.has /\ name \in DOMAIN typ.fields_defaults
    THEN typ.fields_defaults[name]
  ELSE SENTINEL

\* The fields that make up the descriptors of the type, in declared order,
\* as <<name, declared type, declared default>>.
Descriptors ==
  IF rule = "attrs_classes"
    THEN LET fs == SelectSeq(typ.attrs, LAMBDA f : f.init)
         IN  [k \in 1..Len(fs) |-> <<fs[k].name, fs[k].type, fs[k].default>>]
    ELSE IF "_field_types" \in typ.has
      THEN [k \in 1..Len(typ.field_types) |->
              <<typ.field_types[k][1], typ.field_types[k][2],
                NtDeclaredDefault(typ.field_types[k][1])>>]
      ELSE [k \in 1..Len(typ.fields_) |->
              <<typ.fields_[k], "NoneT", NtDeclaredDefault(typ.fields_[k])>>]

\* The pattern of a declared field type: what the lookup of its resolved
\* type gives, or the wildcard when that lookup gives nothing.
PatternOrUnkown(t) ==
  LET got == Lookup(ctxMissing, PATTERN, resolve_fwd_ref(t, typ.name), "True").val
  IN  IF got.kind = "None" THEN Unkown ELSE got

\* The object pattern entries of the required descriptors, in order.
RequiredEntries ==
  LET req == SelectSeq(Descriptors, LAMBDA d : d[3] = SENTINEL)
  IN  [k \in 1..Len(req) |-> <<StringExact(req[k][1]), PatternOrUnkown(req[k][2])>>]

\* C7: under the pattern verb the record rule and the named-tuple rule both
\* return an object pattern whose entries are exactly the required fields,
\* in declared order, each mapping the field name to the pattern of the
\* field's type, or to the wildcard when the lookup of that type gave
\* nothing.
C7_PatternEntries ==
  (Returned /\ verb = PATTERN /\ rule \in {"attrs_classes", "named_tuples"}) =>
     /\ result.fn = "Object.exact"
     /\ result.inner_map = RequiredEntries

\* The part of C7 the record rule alone satisfies.
C7_RecordPatternEntries ==
  (Returned /\ verb = PATTERN /\ rule = "attrs_classes") =>
     /\ result.fn = "Object.exact"
     /\ result.inner_map = RequiredEntries

\* The descriptor of position k of inner_map agrees with the declaration:
\* the bound default is the declared one (SENTINEL for none), the bound
\* required flag says that no default is declared.
DescriptorAgrees(k) ==
  LET name == inner_map[k][1]
      decl == Descriptors[k][3]
      got == inner_map[k][2]
      enc == IF rule = "attrs_classes"
               THEN AttrsTup(PY2JSON, typ.attrs[CHOOSE j \in 1..Len(typ.attrs) :
                                                  typ.attrs[j].name = name], got)[3]
               ELSE NtTup(PY2JSON, name, got, NtDefaultsOf(typ))[3]
      req(v) == IF rule = "attrs_classes"
                  THEN AttrsTup(v, typ.attrs[CHOOSE j \in 1..Len(typ.attrs) :
                                               typ.attrs[j].name = name], got)[3]
                  ELSE NtTup(v, name, got, NtDefaultsOf(typ))[3]
  IN  /\ name = Descriptors[k][1]
      /\ verb = PY2JSON =>
           /\ inner_map[k][3] = decl
           /\ (inner_map[k][3] = SENTINEL) = req(INSP_JSON)
           /\ (inner_map[k][3] = SENTINEL) = req(PATTERN)
      /\ verb \in {INSP_JSON, PATTERN} =>
           /\ inner_map[k][3] = (decl = SENTINEL)
           /\ inner_map[k][3] = (enc = SENTINEL)
           /\ decl = None => ~inner_map[k][3]

\* C8: for every field of a record or named-tuple type the descriptors built
\* under the different verbs agree: the required flag bound for the
\* JSON-validate and pattern verbs is true exactly when the default bound for
\* the encode verb is SENTINEL, and a declared default of None counts as a
\* default.
C8_RequiredIffNoDefault ==
  (Called /\ rule \in {"attrs_classes", "named_tuples"}
          /\ verb \in {PY2JSON, INSP_JSON, PATTERN}) =>
     \A k \in 1..Len(inner_map) : DescriptorAgrees(k)

\* C8 witness: the named-tuple rule bound, for the JSON check, a required
\* first field and a second field whose default is None as not required.
C8_Witness ==
  /\ pc = "done" /\ rule = "named_tuples" /\ verb = INSP_JSON
  /\ Len(inner_map) = 2
  /\ NtDeclaredDefault("a") = SENTINEL /\ inner_map[1][3] = TRUE
  /\ NtDeclaredDefault("b") = None /\ inner_map[2][3] = FALSE

\* The field names the returned action binds, in order.
BoundNames ==
  IF result.fn = "Object.exact"
    THEN [k \in 1..Len(result.inner_map) |-> result.inner_map[k][1][2]]
    ELSE NamesOf(result.inner_map)

\* One lookup was made per constructor field, in declared order, and none
\* for any other field.
OneLookupPerInitField ==
  LET fs == SelectSeq(typ.attrs, LAMBDA f : f.init)
  IN  /\ Len(Lookups(log)) = Len(fs)
      /\ \A k \in 1..Len(fs) :
            Lookups(log)[k].typ = resolve_fwd_ref(fs[k].type, typ.name)

\* The verbs of the record rule that walk the field list.
FieldVerbs == {JSON2PY, PY2JSON, INSP_JSON, PATTERN}

\* C9 as stated: under the decode, encode, JSON-validate and pattern verbs
\* the field list bound into the result of the record rule holds exactly the
\* constructor fields in declared order, with one lookup per such field.
C9_Original ==
  (Returned /\ rule = "attrs_classes" /\ verb \in FieldVerbs) =>
     /\ BoundNames = InitNames
     /\ OneLookupPerInitField

\* C9 amended: under the decode, encode, JSON-validate and pattern verbs the
\* record rule makes exactly one lookup per constructor field, in declared
\* order, and none for a non-init field, and its inner_map holds exactly the
\* constructor fields in that order.  The decoder, the encoder and the
\* generated JSON check bind that whole list; the pattern binds only its
\* required fields, in order; the __json_check__ override binds no field.
C9_InitFieldsInOrder ==
  (Returned /\ rule = "attrs_classes" /\ verb \in FieldVerbs) =>
     /\ NamesOf(inner_map) = InitNames
     /\ OneLookupPerInitField
     /\ IF result.fn = check THEN BoundNames = <<>>
        ELSE IF verb = PATTERN
          THEN BoundNames =
                 NamesOf(SelectSeq(Descriptors, LAMBDA d : d[3] = SENTINEL))
          ELSE result.inner_map = inner_map

\* C9 witness: the decoder of a class whose first field is derived and whose
\* second is a constructor field binds the second field alone.
C9_Witness ==
  /\ pc = "done" /\ rule = "attrs_classes" /\ verb = JSON2PY
  /\ Len(typ.attrs) = 2 /\ ~typ.attrs[1].init /\ typ.attrs[2].init
  /\ BoundNames = <<"b">>
  /\ Len(Lookups(log)) = 1

\* C10: building the result of a rule invokes no hook member.  For a record
\* type a missing pre-decode hook is bound as identity, a missing post-encode
\* hook as None, and a missing __json_check__ selects check_dict; the
\* named-tuple rule binds identity and None whatever members the type has.
C10_HooksOnlyLookedUp ==
  /\ pc \in {"loop", "done"} => HookCalls(log) = <<>>
  /\ (Returned /\ rule = "attrs_classes") =>
       /\ (verb = JSON2PY /\ pre_hook \notin typ.has) =>
             result.pre_hook = identity
       /\ (verb = PY2JSON /\ post_hook \notin typ.has) =>
             result.post_hook = None
       /\ (verb = INSP_JSON /\ check \notin typ.has) =>
             /\ result.fn = "check_dict"
             /\ pre_hook \notin typ.has => result.pre_hook = identity
  /\ (Returned /\ rule = "named_tuples") =>
       /\ verb = JSON2PY => result.pre_hook = identity
       /\ verb = PY2JSON => result.post_hook = None
       /\ verb = INSP_JSON =>
             result.fn = "check_dict" /\ result.pre_hook = identity

\* C10 witness: the JSON check of a record class that has all three hook
\* members was built, as the override, without a hook being invoked.
C10_Witness ==
  /\ pc = "done" /\ rule = "attrs_classes" /\ verb = INSP_JSON
  /\ HookNames \subseteq typ.has
  /\ result.fn = check
  /\ HookCalls(log) = <<>>


====
